---- MODULE Spec2Model ----
(***************************************************************************)
(* A model of the prompt-template class PT of src/src/pt.py: construction  *)
(* (registry load, forced-model resolution, file parsing), the prompt      *)
(* property, _perform_templating, matching_model and run.                  *)
(*                                                                         *)
(* Spec      : templates, their composition and their dispatch.            *)
(* SpecParse : _parse_file as a function of the lines of a file.           *)
(***************************************************************************)
EXTENDS Integers, Sequences, FiniteSets, TLC

VARIABLES
    registry,      \* ModelLoader().providers: sequence of [model_name, provider]
    status,        \* per template: "absent", "constructed", "failed" (__init__ raised)
    shebangs,      \* per template: model names of self.shebangs, in file order
    models,        \* per template: self.models (the compatible models)
    forced_model,  \* per template: self.forced_model (a provider or None)
    kwargs,        \* per template: self.kwargs, the bound arguments in insertion order
    call,          \* the last call made on a template and what it returned
    file,          \* the lines of the file handed to _parse_file
    parsed         \* what _parse_file produced for file

vars == <<registry, status, shebangs, models, forced_model, kwargs, call, file, parsed>>

----------------------------------------------------------------------------
(* Bounds *)

MaxTemplates == 2     \* templates constructed in one run
MaxDirectives == 2    \* directive lines of a template file
MaxRegistry == 2      \* entries of the registry
MaxArgs == 2          \* keyword arguments of one call
MaxBound == 1         \* keyword arguments bound at construction
MaxLines == 5         \* lines of a parsed file
MaxTail == 5          \* characters after the marker in a directive line

Names == {"m1", "m2", "m3"}
\* the model names that providers are registered under; no provider serves m3
RegistryNames == {"m1", "m2"}
None == "None"
Plain == 0            \* an argument that is not a PT
Templates == 1..MaxTemplates

----------------------------------------------------------------------------
(* Helpers *)

SetOf(s) == {s[i] : i \in DOMAIN s}

SeqsUpTo(S, n) == UNION {[1..k -> S] : k \in 0..n}

\* the iteration orders a Python set of the names can have (string hashing)
HashOrders == {o \in [1..Cardinality(Names) -> Names] : SetOf(o) = Names}

\* list(S) for a set S under the iteration order ord
ListOfSet(S, ord) == SelectSeq(ord, LAMBDA n : n \in S)

----------------------------------------------------------------------------
(* Registry: ModelLoader().providers *)

\* the provider objects, one per registry entry
Providers == <<"p1", "p2", "p3", "p4">>

Entry(n, i) == [model_name |-> n, provider |-> Providers[i]]

Registries ==
    {[i \in DOMAIN ns |-> Entry(ns[i], i)] : ns \in SeqsUpTo(RegistryNames, MaxRegistry)}

\* for provider in self.available_models: if provider['model_name'] == name: ...; break
FirstProvider(reg, name) ==
    IF \E i \in DOMAIN reg : reg[i].model_name = name
    THEN reg[CHOOSE i \in DOMAIN reg :
                /\ reg[i].model_name = name
                /\ \A j \in 1..(i - 1) : reg[j].model_name # name].provider
    ELSE None

\* a plausible slip: the registry is scanned first, the compatibility list second
RECURSIVE matching_model_registry_first(_, _)
matching_model_registry_first(ms, reg) ==
    IF reg = <<>> THEN None
    ELSE IF Head(reg).model_name \in SetOf(ms) THEN Head(reg).provider
    ELSE matching_model_registry_first(ms, Tail(reg))

\* PT.matching_model: the provider (and the name it was found under) of the
\* first name of self.models that has a registry entry
RECURSIVE matching_name(_, _)
matching_name(ms, reg) ==
    IF ms = <<>> THEN None
    ELSE IF FirstProvider(reg, Head(ms)) # None THEN Head(ms)
    ELSE matching_name(Tail(ms), reg)

RECURSIVE matching_model(_, _)
matching_model(ms, reg) ==
    IF ms = <<>> THEN None
    ELSE IF FirstProvider(reg, Head(ms)) # None THEN FirstProvider(reg, Head(ms))
    ELSE matching_model(Tail(ms), reg)

----------------------------------------------------------------------------
(* Composition: PT._perform_templating and PT.prompt *)

\* a plausible slip: the nested template's models are added instead of intersected
narrow_union(a, b, ord) == ListOfSet(SetOf(a) \cup SetOf(b), ord)

\* a plausible slip: only the last nested template narrows (assignment from v.models)
narrow_replace(a, b, ord) == ListOfSet(SetOf(b), ord)

\* list(set(self.models).intersection(v.models)); the order of the list is the
\* iteration order of the set
narrow(a, b, ord) == ListOfSet(SetOf(a) \cap SetOf(b), ord)

RECURSIVE perform_templating(_, _, _, _)
RECURSIVE prompt_models(_, _, _)

\* the loop of _perform_templating over kwargs.items(): ms is self.models of
\* every template, the result is ms once the loop has run for template t
perform_templating(t, kw, ms, ord) ==
    IF kw = <<>> THEN ms
    ELSE LET v == Head(kw) IN
         IF v \in Templates
         THEN LET ms1 == prompt_models(v, ms, ord)
                  ms2 == [ms1 EXCEPT ![t] = narrow(ms1[t], ms1[v], ord)]
              IN perform_templating(t, Tail(kw), ms2, ord)
         ELSE perform_templating(t, Tail(kw), ms, ord)

\* the model prompt resolves before it renders: the forced provider, else the
\* matching model, else nothing
prompt_provider(t, ms) ==
    IF forced_model[t] # None THEN forced_model[t]
    ELSE matching_model(ms[t], registry)

\* the arguments prompt hands to _perform_templating: **self.kwargs, and model=
\* when one was resolved
prompt_args(t, ms) ==
    IF prompt_provider(t, ms) # None THEN kwargs[t] \o <<Plain>> ELSE kwargs[t]

\* self.models of every template once v.prompt has been evaluated
prompt_models(v, ms, ord) == perform_templating(v, prompt_args(v, ms), ms, ord)

\* Model.invoke_from_pt(pt, **kwargs): renders the prompt of pt, then calls the
\* model with it and kwargs; rendered is FALSE when it raises before rendering
invoke_from_pt(t, ms, ord, rendered) ==
    IF rendered THEN prompt_models(t, ms, ord) ELSE ms

----------------------------------------------------------------------------
(* Dispatch: PT.run *)

\* a plausible slip: except IndexError only, any other exception propagates
run_except_narrow(exc) ==
    [result |-> None, propagated |-> exc # "IndexError"]

\* except Exception as e: logging.error(...); return None
run_except(exc) == [result |-> None, propagated |-> FALSE]

\* the provider run invokes: self.forced_model, elif self.matching_model
run_select(t, ms) ==
    IF forced_model[t] # None THEN forced_model[t]
    ELSE matching_model(ms[t], registry)

\* the body of run's try block: the exception it raises (None when it returns)
run_exception(selected, outcome) ==
    IF selected = None THEN "Exception"
    ELSE IF outcome = "raises" THEN "Exception"
    ELSE IF outcome = "empty" THEN "IndexError"
    ELSE None

----------------------------------------------------------------------------
(* Parsing: PT._parse_file, over lines that are sequences of characters *)

Space == {" ", "\n"}
Chars == {"#", "!", "/", "a", "b"} \cup Space
NonSlash == Chars \ {"/"}
Marker == <<"#", "!">>
Latest == <<"l", "a", "t", "e", "s", "t">>

\* line.startswith(prefix)
startswith(line, prefix) ==
    /\ Len(line) >= Len(prefix)
    /\ \A i \in DOMAIN prefix : line[i] = prefix[i]

\* line.strip()
strip(line) ==
    IF \A i \in DOMAIN line : line[i] \in Space THEN <<>>
    ELSE LET first == CHOOSE i \in DOMAIN line :
                        line[i] \notin Space /\ \A j \in 1..(i - 1) : line[j] \in Space
             last == CHOOSE i \in DOMAIN line :
                        line[i] \notin Space /\ \A j \in (i + 1)..Len(line) : line[j] \in Space
         IN SubSeq(line, first, last)

\* how many characters of s, from position i on, a greedy S* takes
Greedy(s, i, S) ==
    CHOOSE n \in 0..(Len(s) + 1 - i) :
        /\ \A k \in 0..(n - 1) : s[i + k] \in S
        /\ (i + n > Len(s) \/ s[i + n] \notin S)

\* re.search(r'#!\s*([^/]*)/?([^/]*)?', s): the groups of the leftmost match
shebang_match(s) ==
    IF ~\E p \in 1..(Len(s) - 1) : s[p] = "#" /\ s[p + 1] = "!"
    THEN [matched |-> FALSE, model_name |-> <<>>, version |-> <<>>]
    ELSE LET p == CHOOSE q \in 1..(Len(s) - 1) :
                    /\ s[q] = "#" /\ s[q + 1] = "!"
                    /\ \A r \in 1..(q - 1) : ~(s[r] = "#" /\ s[r + 1] = "!")
             b == p + 2 + Greedy(s, p + 2, Space)
             c == b + Greedy(s, b, NonSlash)
             d == IF c <= Len(s) /\ s[c] = "/" THEN c + 1 ELSE c
             e == d + Greedy(s, d, NonSlash)
         IN [matched |-> TRUE, model_name |-> SubSeq(s, b, c - 1),
             version |-> SubSeq(s, d, e - 1)]

\* the first while loop of _parse_file: the directive records, the index the
\* loop stops at, and the exception that ends it (None when it ends normally)
RECURSIVE read_shebangs(_, _, _)
read_shebangs(lines, i, acc) ==
    IF i > Len(lines) THEN [exc |-> "IndexError", i |-> i, shebangs |-> acc]
    ELSE IF ~startswith(lines[i], Marker) THEN [exc |-> None, i |-> i, shebangs |-> acc]
    ELSE LET m == shebang_match(strip(lines[i])) IN
         IF m.matched
         THEN read_shebangs(lines, i + 1,
                  Append(acc, [model_name |-> m.model_name,
                               version |-> IF m.version # <<>> THEN m.version
                                           ELSE Latest]))
         ELSE [exc |-> "ValueError", i |-> i, shebangs |-> acc]

\* a plausible slip: the blank lines after the directives are not skipped
body_start_no_skip(lines, i) == IF i > Len(lines) THEN 0 ELSE i

\* while not lines[i].strip(): i += 1; 0 stands for the IndexError past the end
RECURSIVE body_start(_, _)
body_start(lines, i) ==
    IF i > Len(lines) THEN 0
    ELSE IF strip(lines[i]) = <<>> THEN body_start(lines, i + 1)
    ELSE i

\* while not lines[-1].strip(): lines.pop()
RECURSIVE strip_trailing(_)
strip_trailing(lines) ==
    IF lines # <<>> /\ strip(lines[Len(lines)]) = <<>>
    THEN strip_trailing(SubSeq(lines, 1, Len(lines) - 1))
    ELSE lines

NotParsed == [status |-> "none", shebangs |-> <<>>, body |-> <<>>]

ParseFailure(error) == [status |-> error, shebangs |-> <<>>, body |-> <<>>]

\* _parse_file on the lines of readlines(): self.shebangs and the lines joined
\* into self.raw_template, or the error it raises
parse_file(lines) ==
    LET r == read_shebangs(lines, 1, <<>>) IN
    IF r.exc = "ValueError" THEN ParseFailure("MalformedDirective")
    ELSE IF r.exc = "IndexError" THEN ParseFailure("ParseError")
    ELSE LET i == body_start(lines, r.i) IN
         IF i = 0 THEN ParseFailure("ParseError")
         ELSE [status |-> "ok", shebangs |-> r.shebangs,
               body |-> SubSeq(strip_trailing(lines), i, Len(strip_trailing(lines)))]

----------------------------------------------------------------------------
(* State *)

NoCall ==
    [op |-> "none", t |-> 0, nested |-> {}, pre |-> <<>>, result |-> None,
     provider |-> None, model |-> None, forced |-> None, loaded |-> FALSE,
     outcome |-> None, exc |-> None, propagated |-> FALSE]

Constructed == {t \in Templates : status[t] = "constructed"}

\* the keyword arguments of a call, in insertion order: plain values and templates
Args(n) == SeqsUpTo({Plain} \cup Constructed, n)

\* the model names of the directive lines of a template file, in file order:
\* at least one line, each model named once
DirectiveLists ==
    {d \in SeqsUpTo(Names, MaxDirectives) : d # <<>> /\ Cardinality(SetOf(d)) = Len(d)}

\* the keyword arguments bound at construction
BoundArgs == [1..MaxBound -> {Plain} \cup Constructed]

InitTemplates ==
    /\ status = [t \in Templates |-> "absent"]
    /\ shebangs = [t \in Templates |-> <<>>]
    /\ models = [t \in Templates |-> <<>>]
    /\ forced_model = [t \in Templates |-> None]
    /\ kwargs = [t \in Templates |-> <<>>]
    /\ call = NoCall

Init ==
    /\ registry \in Registries
    /\ InitTemplates
    /\ file = <<>>
    /\ parsed = NotParsed

\* the exception that ends PT.__init__ (None when it returns): the read of the
\* unset self.forced_model at line 47, a raise of _parse_file, a raise of the
\* second read of ModelLoader().providers
construct_exception(resolve, forced, parses, load) ==
    IF resolve /\ FirstProvider(registry, forced) = None THEN "AttributeError"
    ELSE IF ~parses THEN "ParseError"
    ELSE IF load = "second_raises" THEN "LoadError"
    ELSE None

\* PT.__init__(filepath, forced_model, **kwargs)
\*   load    : how the two reads of ModelLoader().providers end
\*   parse   : the model names of the directives _parse_file finds
\*   parses  : _parse_file returns (it raises otherwise)
Construct(t) ==
    /\ call.op = "none"
    /\ status[t] = "absent"
    /\ \A u \in 1..(t - 1) : status[u] # "absent"
    /\ \E forced \in Names \cup {None},
          load \in {"ok", "first_raises", "second_raises"},
          parse \in DirectiveLists, parses \in BOOLEAN,
          bound \in BoundArgs :
        LET loaded == load # "first_raises"
            resolve == forced # None /\ loaded
            exc == construct_exception(resolve, forced, parses, load)
        IN  /\ call' = [NoCall EXCEPT !.op = "construct", !.t = t, !.forced = forced,
                                      !.loaded = loaded, !.exc = exc,
                                      !.propagated = exc # None]
            /\ IF exc # None
               THEN /\ status' = [status EXCEPT ![t] = "failed"]
                    /\ UNCHANGED <<shebangs, models, forced_model, kwargs>>
               ELSE /\ status' = [status EXCEPT ![t] = "constructed"]
                    /\ forced_model' = [forced_model EXCEPT ![t] =
                           IF resolve THEN FirstProvider(registry, forced) ELSE None]
                    /\ kwargs' = [kwargs EXCEPT ![t] = bound]
                    /\ shebangs' = [shebangs EXCEPT ![t] = parse]
                    /\ models' = [models EXCEPT ![t] = parse]
    /\ UNCHANGED <<registry, file, parsed>>

\* pt._perform_templating(**kw); ok: self.template.render(**kwargs) returns
PerformTemplating(t) ==
    /\ call.op = "none"
    /\ status[t] = "constructed"
    /\ \E kw \in Args(MaxArgs), ok \in BOOLEAN, ord \in HashOrders :
        /\ models' = perform_templating(t, kw, models, ord)
        /\ call' = [NoCall EXCEPT !.op = "render", !.t = t,
                                  !.nested = SetOf(kw) \cap Templates,
                                  !.pre = models[t],
                                  !.result = IF ok THEN "text" ELSE None]
    /\ UNCHANGED <<registry, status, shebangs, forced_model, kwargs, file, parsed>>

\* pt.prompt
Prompt(t) ==
    /\ call.op = "none"
    /\ status[t] = "constructed"
    /\ \E ok \in BOOLEAN, ord \in HashOrders :
        /\ models' = prompt_models(t, models, ord)
        /\ call' = [NoCall EXCEPT !.op = "prompt", !.t = t,
                                  !.nested = SetOf(kwargs[t]) \cap Templates,
                                  !.pre = models[t],
                                  !.provider = prompt_provider(t, models),
                                  !.model = IF forced_model[t] # None THEN None
                                            ELSE matching_name(models[t], registry),
                                  !.result = IF ok THEN "text" ELSE None]
    /\ UNCHANGED <<registry, status, shebangs, forced_model, kwargs, file, parsed>>

\* pt.run(**kw); the keyword arguments go to the provider as they are
\*   outcome : what the provider's invoke_from_pt does
Run(t) ==
    /\ call.op = "none"
    /\ status[t] = "constructed"
    /\ \E outcome \in {"raises", "empty", "result"},
          rendered \in BOOLEAN, ord \in HashOrders :
        LET selected == run_select(t, models)
            exc == run_exception(selected, outcome)
            handled == run_except(exc)
        IN  /\ outcome # "raises" => rendered
            /\ models' = IF selected = None THEN models
                         ELSE invoke_from_pt(t, models, ord, rendered)
            /\ call' = [NoCall EXCEPT !.op = "run", !.t = t,
                            !.nested = IF selected # None /\ rendered
                                       THEN SetOf(kwargs[t]) \cap Templates
                                       ELSE {},
                            !.pre = models[t],
                            !.provider = selected,
                            !.outcome = IF selected = None THEN None ELSE outcome,
                            !.exc = exc,
                            !.result = IF exc = None THEN "first" ELSE handled.result,
                            !.propagated = IF exc = None THEN FALSE
                                           ELSE handled.propagated]
    /\ UNCHANGED <<registry, status, shebangs, forced_model, kwargs, file, parsed>>

\* the caller takes what the call returned (or the exception it raised)
Return ==
    /\ call.op # "none"
    /\ call' = NoCall
    /\ UNCHANGED <<registry, status, shebangs, models, forced_model, kwargs, file, parsed>>

Next ==
    \/ \E t \in Templates : Construct(t)
    \/ \E t \in Templates : PerformTemplating(t)
    \/ \E t \in Templates : Prompt(t)
    \/ \E t \in Templates : Run(t)
    \/ Return

Spec == Init /\ [][Next]_vars

----------------------------------------------------------------------------
(* SpecParse: _parse_file on every file of the bounded set Files *)

Line(chars) == chars \o <<"\n">>

\* the lines the files are made of: two directive lines, two blank lines, a
\* body line
FileLines ==
    {Line(<<"#", "!", "a">>), Line(<<"#", "!", "b", "/", "a">>),
     Line(<<>>), Line(<<" ">>), Line(<<"a">>)}

\* every directive line with at most MaxTail characters after the marker
DirectiveLines ==
    {Line(Marker \o tail) : tail \in SeqsUpTo({"a", "/", " "}, MaxTail)}

\* what readlines() can return: every line ends with a newline, but for the last
Files ==
    SeqsUpTo(FileLines, MaxLines)
        \cup {Append(f, <<"a">>) : f \in SeqsUpTo(FileLines, MaxLines - 1)}
        \cup {<<d, Line(<<"a">>)>> : d \in DirectiveLines}

InitParse ==
    /\ file \in Files
    /\ parsed = NotParsed
    /\ registry = <<>>
    /\ InitTemplates

\* self._parse_file() on the file
ParseFile ==
    /\ parsed.status = "none"
    /\ parsed' = parse_file(file)
    /\ UNCHANGED <<registry, status, shebangs, models, forced_model, kwargs, call, file>>

NextParse == ParseFile

SpecParse == InitParse /\ [][NextParse]_vars

----------------------------------------------------------------------------
(* Properties of dispatch and composition, checked under Spec *)

\* a call that rendered template call.t with at least one template among the
\* arguments of the rendering
ComposedCall ==
    /\ call.op \in {"render", "prompt", "run"}
    /\ call.nested # {}

\* the positions of ms whose name has a registry entry
Served(ms) ==
    {i \in DOMAIN ms : \E j \in DOMAIN registry : registry[j].model_name = ms[i]}

\* C1: run invokes the bound override provider when there is one, whatever the
\* compatible models and the registry order; otherwise the provider of the first
\* registry entry of the earliest compatible name that has an entry; and no
\* provider when no compatible name has an entry.
C1_RunInvokesSelectedProvider ==
    call.op = "run" =>
        IF forced_model[call.t] # None
        THEN call.provider = forced_model[call.t]
        ELSE IF Served(call.pre) = {}
        THEN call.provider = None
        ELSE \E i \in Served(call.pre), j \in DOMAIN registry :
                /\ \A k \in Served(call.pre) : i <= k
                /\ registry[j].model_name = call.pre[i]
                /\ \A k \in 1..(j - 1) : registry[k].model_name # call.pre[i]
                /\ call.provider = registry[j].provider

\* a run with a bound override where matching would have picked another provider
C1_Witness ==
    /\ call.op = "run"
    /\ forced_model[call.t] # None
    /\ call.provider = forced_model[call.t]
    /\ matching_model(call.pre, registry) \notin {None, forced_model[call.t]}

\* C2 (as claimed): constructing with a forced model name that has no entry in
\* the loaded registry completes, and the template has no bound override.
C2_UnknownForcedModelFallsBack ==
    (/\ call.op = "construct"
     /\ call.forced # None
     /\ call.loaded
     /\ FirstProvider(registry, call.forced) = None)
    => /\ call.exc = None
       /\ status[call.t] = "constructed"
       /\ forced_model[call.t] = None

\* C3: the compatible models of a template are always among the models its
\* directives name, and no step makes the set of compatible models of a
\* constructed template grow.
C3_CompatibleModelsShrink ==
    /\ [](\A t \in Constructed : SetOf(models[t]) \subseteq SetOf(shebangs[t]))
    /\ [][\A t \in Templates :
            status[t] = "constructed" => SetOf(models'[t]) \subseteq SetOf(models[t])]_vars

\* a rendering with a nested template that removed a model from the template
C3_Witness ==
    /\ ComposedCall
    /\ SetOf(models[call.t]) # SetOf(call.pre)
    /\ SetOf(models[call.t]) \subseteq SetOf(call.pre)

C5_RunNeverRaises ==
    call.op = "run" =>
        /\ ~call.propagated
        /\ (forced_model[call.t] = None /\ Served(call.pre) = {}) => call.result = None
        /\ call.outcome \in {"raises", "empty"} => call.result = None
        /\ (call.provider # None /\ call.outcome = "result") => call.result = "first"

\* a run whose provider raised, and a None came back
C5_Witness ==
    /\ call.op = "run"
    /\ call.provider # None
    /\ call.outcome = "raises"
    /\ call.result = None
    /\ ~call.propagated

\* C6 (as claimed): a rendering that ends in None leaves the compatible models
\* of the template as they were before the call, also when another template is
\* among the arguments (here: the same names, whatever their order).
C6_FailedRenderKeepsModels ==
    (/\ call.op \in {"render", "prompt"}
     /\ call.result = None
     /\ call.t \notin call.nested)
    => SetOf(models[call.t]) = SetOf(call.pre)

\* the first position of name n in the directives of template t
DeclaredAt(t, n) ==
    CHOOSE i \in DOMAIN shebangs[t] :
        /\ shebangs[t][i] = n
        /\ \A j \in 1..(i - 1) : shebangs[t][j] # n

\* C9 (as claimed): after the compatible models were narrowed by composition,
\* the remaining names are in the order the directives declare them.
C9_NarrowingKeepsDeclarationOrder ==
    (ComposedCall /\ call.t \notin call.nested) =>
        \A i, j \in DOMAIN models[call.t] :
            i < j => DeclaredAt(call.t, models[call.t][i])
                        < DeclaredAt(call.t, models[call.t][j])

\* C10 (as claimed): the model that prompt resolves for a template without
\* override, with nested templates among the bound arguments, is one of the
\* compatible models of the template once that prompt has narrowed them.
C10_PromptModelStaysCompatible ==
    (/\ call.op = "prompt"
     /\ forced_model[call.t] = None
     /\ call.nested # {}
     /\ call.model # None)
    => call.model \in SetOf(models[call.t])

----------------------------------------------------------------------------
(* Properties of parsing, checked under SpecParse *)

IsBlank(line) == \A i \in DOMAIN line : line[i] \in Space

\* the number of lines of the leading directive block of f
BlockLen(f) ==
    CHOOSE n \in 0..Len(f) :
        /\ \A i \in 1..n : startswith(f[i], Marker)
        /\ (n < Len(f) => ~startswith(f[n + 1], Marker))

\* f has lines that are not blank after its directive block
HasBody(f) == \E i \in (BlockLen(f) + 1)..Len(f) : ~IsBlank(f[i])

\* the text of a directive line after the marker and the white space around
DirectiveText(line) ==
    LET s == strip(line)
        t == SubSeq(s, 3, Len(s))
    IN strip(t)

\* line is of the form name or name/version: one or two segments, none empty
WellFormed(line) ==
    LET t == DirectiveText(line)
        slashes == {i \in DOMAIN t : t[i] = "/"}
    IN /\ t # <<>>
       /\ Cardinality(slashes) <= 1
       /\ \A i \in slashes : 1 < i /\ i < Len(t)

\* record r is what the well-formed directive line declares
Declares(line, r) ==
    DirectiveText(line) =
        r.model_name \o (IF r.version = Latest THEN <<>> ELSE <<"/">> \o r.version)

\* C7 (as claimed): a file whose directive block has a line that is not of the
\* form name or name/version fails to parse, with a malformed-directive error.
C7_MalformedDirectiveRejected ==
    (/\ parsed.status # "none"
     /\ HasBody(file)
     /\ \E i \in 1..BlockLen(file) : ~WellFormed(file[i]))
    => parsed.status = "MalformedDirective"

====
